---- MODULE Spec2Model ----
(***************************************************************************)
(* Model of src/server.js: the URL validator, the content-type gate, the   *)
(* regex extractors and the four express handlers (/api/head, /api/og,     *)
(* /api/resolve/rednote, /api/download) with their outbound fetch calls.   *)
(*                                                                         *)
(* Text is a sequence of one-character strings, so that the regular        *)
(* expressions and string methods of the source can be computed character  *)
(* by character.  A missing value (undefined query parameter, null header) *)
(* is the empty sequence: every use in the source (`|| ''`, `!x`,          *)
(* `x && ...`, `new URL(x)`) treats undefined/null and '' alike.           *)
(***************************************************************************)
EXTENDS Integers, Sequences, FiniteSets, TLC

\* ------------------------------------------------------------- characters

UpperCase == <<"A","B","C","D","E","F","G","H","I","J","K","L","M","N","O","P","Q","R","S","T","U","V","W","X","Y","Z">>
LowerCase == <<"a","b","c","d","e","f","g","h","i","j","k","l","m","n","o","p","q","r","s","t","u","v","w","x","y","z">>
Digits == {"0","1","2","3","4","5","6","7","8","9"}

\* String.prototype.toLowerCase / the i flag, on one character
lower(c) ==
  IF \E i \in 1..26 : UpperCase[i] = c
  THEN LowerCase[CHOOSE i \in 1..26 : UpperCase[i] = c]
  ELSE c

toLowerCase(s) == [i \in 1..Len(s) |-> lower(s[i])]

IsAlpha(c) == \E i \in 1..26 : LowerCase[i] = lower(c)

\* \w of a JavaScript regular expression
IsWord(c) == IsAlpha(c) \/ c \in Digits \/ c = "_"

\* \s of a JavaScript regular expression (the whitespace of the alphabet)
IsSpace(c) == c \in {" ", "\t", "\n"}

IsQuote(c) == c \in {"\"", "'"}

SetMin(S) == CHOOSE x \in S : \A y \in S : x <= y
SetMax(S) == CHOOSE x \in S : \A y \in S : x >= y

\* p occurs in s at position i, compared case-insensitively (flag i);
\* the pattern element "ANY" is the regex dot
MatchAt(s, p, i) ==
  /\ i >= 1
  /\ i + Len(p) - 1 <= Len(s)
  /\ \A k \in 1..Len(p) : p[k] = "ANY" \/ lower(s[i + k - 1]) = lower(p[k])

\* p occurs in s at position i, compared exactly
ExactAt(s, p, i) ==
  /\ i >= 1
  /\ i + Len(p) - 1 <= Len(s)
  /\ \A k \in 1..Len(p) : s[i + k - 1] = p[k]

\* String.prototype.includes
includes(s, p) == \E i \in 1..(Len(s) + 1) : ExactAt(s, p, i)

\* ---------------------------------------------------------- URL validator

SchemeChars == {"+", "-", "."}
ForbiddenHost == {" ", "\t", "\n", "#", "/", ":", "<", ">", "?", "@", "[", "\\", "]", "^", "|", "%"}
S_http == <<"h","t","t","p">>
S_https == <<"h","t","t","p","s">>

\* new URL(u) with no base is the WHATWG basic URL parser; it is modelled for
\* the inputs of the model (no credentials, no IPv4/IPv6 literal, no
\* percent-escape in the host), in the parser's stages.

\* leading and trailing C0-control-or-space is stripped, tab and newline removed
CleanInput(u) ==
  LET keep == {i \in 1..Len(u) : ~IsSpace(u[i])}
      t0 == IF keep = {} THEN <<>> ELSE SubSeq(u, SetMin(keep), SetMax(keep))
  IN SelectSeq(t0, LAMBDA ch : ch \notin {"\t", "\n"})

\* scheme start state and scheme state: t[1..c-1] is a scheme, c its colon
SchemeOk(t, c) ==
  /\ c > 1
  /\ IsAlpha(t[1])
  /\ \A i \in 2..(c - 1) : IsAlpha(t[i]) \/ t[i] \in Digits \/ t[i] \in SchemeChars

\* special authority (ignore) slashes state and authority state: the text
\* after the slashes and backslashes that follow the colon, up to / \ ? # or the end
Authority(t, c) ==
  LET nonSlash == {i \in (c + 1)..Len(t) : t[i] \notin {"/", "\\"}}
      a == IF nonSlash = {} THEN Len(t) + 1 ELSE SetMin(nonSlash)
      ends == {i \in a..Len(t) : t[i] \in {"/", "\\", "?", "#"}}
      e == IF ends = {} THEN Len(t) ELSE SetMin(ends) - 1
  IN SubSeq(t, a, e)

\* host state and port state: a non-empty host without forbidden code point,
\* a port of digits
HostPortOk(auth) ==
  LET seps == {i \in 1..Len(auth) : auth[i] = ":"}
      host == IF seps = {} THEN auth ELSE SubSeq(auth, 1, SetMin(seps) - 1)
      port == IF seps = {} THEN <<>> ELSE SubSeq(auth, SetMin(seps) + 1, Len(auth))
  IN /\ Len(host) > 0
     /\ \A i \in 1..Len(host) : host[i] \notin ForbiddenHost
     /\ \A i \in 1..Len(port) : port[i] \in Digits

\* ok = FALSE is the TypeError the constructor throws; protocol is the
\* lower-cased scheme without its colon
ParseClean(t) ==
  LET colons == {i \in 1..Len(t) : t[i] = ":"}
      c == SetMin(colons)
      scheme == toLowerCase(SubSeq(t, 1, c - 1))
      fail == [ok |-> FALSE, protocol |-> <<>>]
  IN IF colons = {} THEN fail
     ELSE IF ~SchemeOk(t, c) THEN fail
     ELSE IF scheme \notin {S_http, S_https} THEN [ok |-> TRUE, protocol |-> scheme]
     ELSE IF HostPortOk(Authority(t, c)) THEN [ok |-> TRUE, protocol |-> scheme]
     ELSE fail

ParseURL(u) == ParseClean(CleanInput(u))

isHttpUrl(u) ==
  LET x == ParseURL(u)
  IN x.ok /\ (x.protocol = S_http \/ x.protocol = S_https)

\* ------------------------------------------------------ content-type gate

T_video == <<"v","i","d","e","o","/">>
T_audio == <<"a","u","d","i","o","/">>
T_image == <<"i","m","a","g","e","/">>
T_application == <<"a","p","p","l","i","c","a","t","i","o","n","/">>
T_vndApple == <<"v","n","d","ANY","a","p","p","l","e","ANY","m","p","e","g","U","R","L">>

\* each entry: the literal after ^ and the alternatives of the group
ALLOW ==
  << [type |-> T_video, subs |-> {<<"m","p","4">>, <<"w","e","b","m">>, <<"o","g","g">>, <<"x","-","m","a","t","r","o","s","k","a">>}],
     [type |-> T_audio, subs |-> {<<"m","p","e","g">>, <<"m","p","3">>, <<"o","g","g">>, <<"a","a","c">>, <<"w","a","v">>, <<"w","e","b","m">>}],
     [type |-> T_image, subs |-> {<<"j","p","e","g">>, <<"p","n","g">>, <<"w","e","b","p">>, <<"g","i","f">>}],
     [type |-> T_application, subs |-> {<<"o","c","t","e","t","-","s","t","r","e","a","m">>, <<"x","-","m","p","e","g","U","R","L">>, T_vndApple}] >>

\* rx.test(ct) for one entry of ALLOW
RxTest(rx, ct) ==
  /\ MatchAt(ct, rx.type, 1)
  /\ \E sub \in rx.subs : MatchAt(ct, sub, Len(rx.type) + 1)

allowedType(ct) == \E k \in 1..Len(ALLOW) : RxTest(ALLOW[k], ct)

\* ------------------------------------------------------------- extractors

S_property == <<"p","r","o","p","e","r","t","y","=">>
S_content == <<"c","o","n","t","e","n","t","=">>
S_ogVideo == <<"o","g",":","v","i","d","e","o">>
S_ogVideoUrl == <<"o","g",":","v","i","d","e","o",":","u","r","l">>
S_ogImage == <<"o","g",":","i","m","a","g","e">>
S_titleOpen == <<"<","t","i","t","l","e",">">>
S_titleClose == <<"<","/","t","i","t","l","e",">">>
S_schemeSep == <<":","/","/">>
S_mp4 == <<".","m","p","4">>
S_m3u8 == <<".","m","3","u","8">>
S_escSlash == <<"\\","/">>
TYPE_m3u8 == <<"a","p","p","l","i","c","a","t","i","o","n","/","x","-","m","p","e","g","U","R","L">>
TYPE_mp4 == <<"v","i","d","e","o","/","m","p","4">>

\* first position >= i of html that holds a quote (Len + 1 when there is none)
NextQuote(html, i) ==
  LET qs == {j \in i..Len(html) : IsQuote(html[j])}
  IN IF qs = {} THEN Len(html) + 1 ELSE SetMin(qs)

\* /property=["']NAME["'][^>]*content=["']([^"']+)["']/i matches at position i
\* with [^>]* taking k characters
MetaAt(html, name, i, k) ==
  LET q1 == i + Len(S_property)
      q2 == q1 + 1 + Len(name)
      c == q2 + 1 + k
      q3 == c + Len(S_content)
      g == q3 + 1
  IN /\ g < Len(html)
     /\ MatchAt(html, S_property, i)
     /\ IsQuote(html[q1])
     /\ MatchAt(html, name, q1 + 1)
     /\ IsQuote(html[q2])
     /\ \A j \in (q2 + 1)..(c - 1) : html[j] # ">"
     /\ MatchAt(html, S_content, c)
     /\ IsQuote(html[q3])
     /\ ~IsQuote(html[g])
     /\ NextQuote(html, g) <= Len(html)

\* every way the meta regex matches for one of the property names:
\* <<start, name, number of characters [^>]* takes>>
MetaHits(html, names) ==
  LET starts == {i \in 1..Len(html) : MatchAt(html, S_property, i)}
  IN {h \in starts \X names \X (0..Len(html)) : MetaAt(html, h[2], h[1], h[3])}

\* the capture group of the match the regex engine reports: the leftmost
\* start and, [^>]* being greedy, the last content= that completes the match
MetaGroup(html, hits) ==
  LET i == SetMin({h[1] : h \in hits})
      name == CHOOSE n \in {h[2] : h \in hits} : \E h \in hits : h[1] = i /\ h[2] = n
      k == SetMax({h[3] : h \in {x \in hits : x[1] = i /\ x[2] = name}})
      g == i + Len(S_property) + 1 + Len(name) + 1 + k + Len(S_content) + 1
  IN SubSeq(html, g, NextQuote(html, g) - 1)

\* (html.match(...) || [,''])[n]: <<>> when nothing matches
MetaContent(html, names) ==
  LET hits == MetaHits(html, names)
  IN IF hits = {} THEN <<>> ELSE MetaGroup(html, hits)

\* String.prototype.trim
trim(s) ==
  LET keep == {i \in 1..Len(s) : ~IsSpace(s[i])}
  IN IF keep = {} THEN <<>> ELSE SubSeq(s, SetMin(keep), SetMax(keep))

\* /<title>([^<]+)<\/title>/i matches at position i
TitleAt(html, i) ==
  LET g == i + Len(S_titleOpen)
      lts == {j \in g..Len(html) : html[j] = "<"}
  IN /\ MatchAt(html, S_titleOpen, i)
     /\ lts # {}
     /\ SetMin(lts) > g
     /\ MatchAt(html, S_titleClose, SetMin(lts))

\* the capture group of the title match at i, trimmed
TitleText(html, i) ==
  LET g == i + Len(S_titleOpen)
      e == SetMin({j \in g..Len(html) : html[j] = "<"})
  IN trim(SubSeq(html, g, e - 1))

ExtractTitle(html) ==
  LET starts == {i \in 1..Len(html) : TitleAt(html, i)}
  IN IF starts = {} THEN <<>> ELSE TitleText(html, SetMin(starts))

ExtractOgVideo(html) == MetaContent(html, {S_ogVideo, S_ogVideoUrl})

ExtractOgImage(html) == MetaContent(html, {S_ogImage})

\* [^"'\s]
IsLinkChar(c) == ~IsQuote(c) /\ ~IsSpace(c)

\* https?:\/\/ at i: the position after it, 0 when it does not match
LinkBodyStart(html, i) ==
  IF MatchAt(html, S_https \o S_schemeSep, i) THEN i + 8
  ELSE IF MatchAt(html, S_http \o S_schemeSep, i) THEN i + 7
  ELSE 0

\* [^"'\s]+?\.(?:mp4|m3u8) from b: the positions of a dot that can end it
LinkDots(html, b) ==
  {d \in (b + 1)..Len(html) :
     /\ \A j \in b..(d - 1) : IsLinkChar(html[j])
     /\ (MatchAt(html, S_mp4, d) \/ MatchAt(html, S_m3u8, d))}

\* the end of the match whose extension starts at dot d, with the greedy
\* optional query (?:\?[^"'\s]*)?
LinkEndFrom(html, d) ==
  LET e1 == IF MatchAt(html, S_mp4, d) THEN d + 3 ELSE d + 4
      stops == {j \in (e1 + 2)..Len(html) : ~IsLinkChar(html[j])}
  IN IF e1 < Len(html) /\ html[e1 + 1] = "?"
     THEN (IF stops = {} THEN Len(html) ELSE SetMin(stops) - 1)
     ELSE e1

\* end position of the match of
\* /(https?:\/\/[^"'\s]+?\.(?:mp4|m3u8))(?:\?[^"'\s]*)?/i that starts at i,
\* 0 when the regex does not match there; +? is lazy: the first dot wins
LinkEndAt(html, i) ==
  LET b == LinkBodyStart(html, i)
      dots == IF b = 0 THEN {} ELSE LinkDots(html, b)
  IN IF dots = {} THEN 0 ELSE LinkEndFrom(html, SetMin(dots))

\* m[0].replace(/\\\//g, '/')
RECURSIVE Unescape(_)
Unescape(s) ==
  IF s = <<>> THEN <<>>
  ELSE IF ExactAt(s, S_escSlash, 1) THEN <<"/">> \o Unescape(SubSeq(s, 3, Len(s)))
  ELSE <<s[1]>> \o Unescape(Tail(s))

\* Set.prototype.add on an insertion-ordered Set
SetAdd(urls, u) == IF \E k \in 1..Len(urls) : urls[k] = u THEN urls ELSE Append(urls, u)

RECURSIVE ScanLinks(_, _, _)

\* lines 95-96 for the match that starts at i, then the rest of the loop
ScanNext(html, i, urls) ==
  LET e == LinkEndAt(html, i)
  IN ScanLinks(html, e + 1, SetAdd(urls, Unescape(SubSeq(html, i, e))))

\* the while ((m = rx.exec(html)) !== null) loop, from lastIndex = pos - 1
ScanLinks(html, pos, urls) ==
  LET starts == {i \in pos..Len(html) : LinkEndAt(html, i) # 0}
  IN IF starts = {} THEN urls ELSE ScanNext(html, SetMin(starts), urls)

\* the media list of the resolver: the scan, then og:video, then the map
BuildMedia(html) ==
  LET ogVideo == ExtractOgVideo(html)
      scanned == ScanLinks(html, 1, <<>>)
      urls == IF ogVideo # <<>> THEN SetAdd(scanned, ogVideo) ELSE scanned
  IN [k \in 1..Len(urls) |->
        [url |-> urls[k],
         type |-> IF includes(urls[k], S_m3u8) THEN TYPE_m3u8 ELSE TYPE_mp4]]

\* ------------------------------------------------- download proxy helpers

S_download == <<"d","o","w","n","l","o","a","d">>
S_octetStream == <<"a","p","p","l","i","c","a","t","i","o","n","/","o","c","t","e","t","-","s","t","r","e","a","m">>
S_extM3u8 == <<"m","3","u","8">>
S_extBin == <<"b","i","n">>
S_attachment == <<"a","t","t","a","c","h","m","e","n","t",";"," ","f","i","l","e","n","a","m","e","=","\"">>
IllegalChars == {"/", "?", "<", ">", "\\", ":", "*", "|", "\""}
ControlChars == {"\t", "\n"}
WindowsReserved == {<<"c","o","n">>, <<"p","r","n">>, <<"a","u","x">>, <<"n","u","l">>} \cup
                   {p \o <<d>> : p \in {<<"c","o","m">>, <<"l","p","t">>}, d \in Digits}

\* sanitize(input) of the sanitize-filename package with the default
\* replacement '': illegalRe, controlRe, reservedRe, windowsReservedRe and
\* windowsTrailingRe applied in that order (the 255-byte truncation never
\* applies to the names of the model)
sanitize(input) ==
  LET s1 == SelectSeq(input, LAMBDA c : c \notin IllegalChars)
      s2 == SelectSeq(s1, LAMBDA c : c \notin ControlChars)
      s3 == IF Len(s2) > 0 /\ \A i \in 1..Len(s2) : s2[i] = "." THEN <<>> ELSE s2
      dots == {i \in 1..Len(s3) : s3[i] = "."}
      stem == IF dots = {} THEN s3 ELSE SubSeq(s3, 1, SetMin(dots) - 1)
      s4 == IF toLowerCase(stem) \in WindowsReserved THEN <<>> ELSE s3
      keep == {i \in 1..Len(s4) : s4[i] \notin {".", " "}}
  IN IF keep = {} THEN <<>> ELSE SubSeq(s4, 1, SetMax(keep))

\* the maximal run of word characters of ct from position g
WordFrom(ct, g) ==
  LET stops == {j \in g..Len(ct) : ~IsWord(ct[j])}
  IN SubSeq(ct, g, IF stops = {} THEN Len(ct) ELSE SetMin(stops) - 1)

\* ct.match(/\/(\w+)/)?.[1]: the word after the first '/' that a word
\* character follows; <<>> when the regex does not match
FirstWordAfterSlash(ct) ==
  LET starts == {i \in 1..(Len(ct) - 1) : ct[i] = "/" /\ IsWord(ct[i + 1])}
  IN IF starts = {} THEN <<>> ELSE WordFrom(ct, SetMin(starts) + 1)

\* filename || 'download', then sanitize
SafeName(filename) == sanitize(IF filename = <<>> THEN S_download ELSE filename)

\* r.headers.get('content-type') || 'application/octet-stream'
DownloadContentType(header) == IF header = <<>> THEN S_octetStream ELSE header

\* (ct.match(/\/(\w+)/)?.[1] || (url.includes('.m3u8')?'m3u8':'bin')).toLowerCase()
DownloadExt(ct, url) ==
  LET w == FirstWordAfterSlash(ct)
  IN toLowerCase(IF w # <<>> THEN w
                 ELSE IF includes(url, S_m3u8) THEN S_extM3u8 ELSE S_extBin)

\* `attachment; filename="${safeName}.${ext}"`
ContentDisposition(safeName, ext) == S_attachment \o safeName \o <<".">> \o ext \o <<"\"">>

\* ------------------------------------------------------------------ inputs

\* upper bound on the number of body chunks an upstream response streams
MaxChunks == 2

U_page == <<"h","t","t","p","s",":","/","/","x",".","t","e","s","t","/","p">>
U_m3u8 == <<"h","t","t","p",":","/","/","x",".","t","e","s","t","/","a",".","m","3","u","8">>
U_m3u8Query == <<"h","t","t","p",":","/","/","x",".","t","e","s","t","/","a",".","m","3","u","8","?","t","=","1">>
U_file == <<"f","i","l","e",":","/","/","/","e","t","c","/","p","a","s","s","w","d">>
U_relative == <<"/","v","/","a",".","m","p","4">>
U_noHost == <<"h","t","t","p",":","/","/">>
U_final == <<"h","t","t","p","s",":","/","/","w","w","w",".","x",".","t","e","s","t","/","e","x","p","l","o","r","e","/","1">>

\* the url parameter of a request; <<>> is a request without one
Urls == {<<>>, U_page, U_m3u8, U_m3u8Query, U_file, U_relative, U_noHost}

\* the filename parameter of /api/download
Filenames == {<<>>, <<"c","l","i","p">>, <<".",".","/",".",".","/","e","t","c","/","p","a","s","s","w","d">>, <<".",".">>, <<"/">>, <<"a","/","b",".","m","p","4"," ",".">>}

\* the referer parameter of /api/download
Referers == {<<>>, U_page, <<"j","a","v","a","s","c","r","i","p","t",":","x">>}

\* content-type headers of upstream responses; <<>> is a response without one
ContentTypes ==
  {<<>>, <<"v","i","d","e","o","/","m","p","4">>, <<"V","I","D","E","O","/","M","P","4",";"," ","c","h","a","r","s","e","t","=","b","i","n","a","r","y">>, <<"t","e","x","t","/","h","t","m","l">>,
   <<"a","p","p","l","i","c","a","t","i","o","n","/","x","-","m","p","e","g","U","R","L">>, <<"g","a","r","b","a","g","e">>}

ContentLengths == {<<>>, <<"2">>}

Statuses == {200, 206, 404}

\* the Response a fetch() resolves with: status, the content-type and
\* content-length headers, and the number of chunks its body streams
Response(statuses, cts, cls, chunks) ==
  [status : statuses, ct : cts, cl : cls, chunks : chunks]

\* responses to the probe (its body is never read)
ProbeResponses == Response(Statuses, ContentTypes, ContentLengths, {0})

\* responses whose body is read as text (a page)
PageResponses == Response(Statuses, {<<"t","e","x","t","/","h","t","m","l">>}, {<<>>}, {0})

\* responses whose body is streamed
MediaResponses == Response(Statuses, ContentTypes, {<<>>}, 0..MaxChunks)

\* Response.ok
IsOk(r) == r.status >= 200 /\ r.status <= 299

H_cat == <<"<","t","i","t","l","e",">"," ","C","a","t"," ","<","/","t","i","t","l","e",">","<","m","e","t","a"," ","p","r","o","p","e","r","t","y","=","\"","o","g",":","i","m","a","g","e","\""," ","c","o","n","t","e","n","t","=","\"","h","t","t","p","s",":","/","/","x",".","t","e","s","t","/","c",".","j","p","g","\"",">"," ","h","t","t","p","s",":","/","/","x",".","t","e","s","t","/","v",".","m","p","4"," ">>
H_dup == <<"<","m","e","t","a"," ","p","r","o","p","e","r","t","y","=","\"","o","g",":","v","i","d","e","o","\""," ","c","o","n","t","e","n","t","=","\"","h","t","t","p","s",":","/","/","x",".","t","e","s","t","/","a",".","m","p","4","\"",">","[","\"","h","t","t","p","s",":","/","/","x",".","t","e","s","t","/","a",".","m","p","4","\"",",","'","h","t","t","p","s",":","/","/","x",".","t","e","s","t","/","a",".","m","p","4","'","]">>
H_relVideo == <<"<","m","e","t","a"," ","p","r","o","p","e","r","t","y","=","'","o","g",":","v","i","d","e","o",":","u","r","l","'"," ","c","o","n","t","e","n","t","=","'","/","v","/","a",".","m","p","4","'",">">>
H_json == <<"{","\"","u","\"",":","\"","h","t","t","p",":","/","/","c",".","t","\\","/","v","\\","/","b",".","m","3","u","8","?","x","=","1","\"","}">>
H_badHost == <<"<","a"," ","h","r","e","f","=","\"","h","t","t","p",":","/","/","[",".","m","p","4","\"",">">>
H_cover == <<"<","t","i","t","l","e",">","T","<","/","t","i","t","l","e",">","<","m","e","t","a"," ","p","r","o","p","e","r","t","y","=","\"","o","g",":","i","m","a","g","e","\""," ","c","o","n","t","e","n","t","=","\"","/","c",".","j","p","g","\"",">">>
H_nothing == <<"<","t","i","t","l","e",">","l","o","g","i","n","<","/","t","i","t","l","e",">","<","p",">","h","e","l","l","o","<","/","p",">">>

\* the bodies r.text() resolves with
Htmls == {<<>>, H_cat, H_dup, H_relVideo, H_json, H_badHost, H_cover, H_nothing}

UA == "Mozilla/5.0"

\* ------------------------------------------------------------------- state

VARIABLES
  endpoint,  \* the route of the request in flight, "none" when there is none
  req,       \* its parameters: url, filename, referer
  pc,        \* where its handler is suspended
  calls,     \* the outbound fetch() calls the handler has issued, in order
  got,       \* the upstream responses those calls have resolved with, in order
  page,      \* the body text read with r.text()
  res,       \* the express response: status, headers, body, sends, ended
  relayed,   \* the number of upstream body chunks piped to the caller
  failure,   \* the failure the request has met: none, invalid, fetch, stream
  crashed    \* the process was terminated by an uncaught exception

vars == <<endpoint, req, pc, calls, got, page, res, relayed, failure, crashed>>

NoReq == [url |-> <<>>, filename |-> <<>>, referer |-> <<>>]

\* a fresh ServerResponse: statusCode 200, nothing sent
NewRes == [status |-> 200, headers |-> <<>>, body |-> <<>>, sends |-> 0, ended |-> FALSE]

Init ==
  /\ endpoint = "none"
  /\ req = NoReq
  /\ pc = "idle"
  /\ calls = <<>>
  /\ got = <<>>
  /\ page = <<>>
  /\ res = NewRes
  /\ relayed = 0
  /\ failure = "none"
  /\ crashed = FALSE

\* res.status(code).json(body) / res.status(code).send(body)
Respond(r, code, body) ==
  [r EXCEPT !.status = code, !.body = body, !.sends = r.sends + 1, !.ended = TRUE]

\* res.setHeader(name, value)
SetHeader(r, name, value) ==
  [r EXCEPT !.headers = [n \in (DOMAIN r.headers) \cup {name} |->
                            IF n = name THEN value ELSE r.headers[n]]]

\* fetch(url, {method, headers, redirect:'follow'})
Fetch(method, url, headers) == [method |-> method, url |-> url, headers |-> headers]

\* the `if (!isHttpUrl(url)) return res.status(400)...` line all handlers open with
RejectInvalid(route, u, body) ==
  /\ endpoint' = route
  /\ req' = [NoReq EXCEPT !.url = u]
  /\ res' = Respond(NewRes, 400, body)
  /\ failure' = "invalid"
  /\ pc' = "done"
  /\ UNCHANGED <<calls, got, page, relayed, crashed>>

\* the catch block of a handler: a rejected await becomes one response
Catch(code, body) ==
  /\ res' = Respond(res, code, body)
  /\ failure' = "fetch"
  /\ pc' = "done"
  /\ UNCHANGED <<endpoint, req, calls, got, page, relayed, crashed>>

\* ------------------------------------------------------------- /api/head

\* a fallback that looks at the status alone
NeedsFallback_StatusOnly(r) == ~IsOk(r)

\* `!r.ok || !r.headers.get('content-type')`
NeedsFallback(r) == ~IsOk(r) \/ r.ct = <<>>

\* lines 46-51: the answer computed from the last response
HeadAnswer(r) ==
  LET ct == r.ct
      cl == r.cl
  IN IF ~allowedType(ct)
     THEN [ok |-> FALSE,
           error |-> "Tipe konten tidak didukung / bukan file publik langsung.",
           contentType |-> ct, contentLength |-> cl]
     ELSE [ok |-> TRUE, contentType |-> ct, contentLength |-> cl]

HeadStart(u) ==
  /\ pc = "idle"
  /\ IF ~isHttpUrl(u)
     THEN RejectInvalid("head", u, [ok |-> FALSE, error |-> "URL tidak valid"])
     ELSE /\ endpoint' = "head"
          /\ req' = [NoReq EXCEPT !.url = u]
          /\ calls' = <<Fetch("HEAD", u, [UserAgent |-> UA])>>
          /\ pc' = "head_wait_head"
          /\ UNCHANGED <<got, page, res, relayed, failure, crashed>>

HeadAfterHead(r) ==
  /\ pc = "head_wait_head"
  /\ got' = Append(got, r)
  /\ IF NeedsFallback(r)
     THEN /\ calls' = Append(calls, Fetch("GET", req.url, [UserAgent |-> UA, Range |-> "bytes=0-1"]))
          /\ pc' = "head_wait_get"
          /\ UNCHANGED res
     ELSE /\ res' = Respond(res, 200, HeadAnswer(r))
          /\ pc' = "done"
          /\ UNCHANGED calls
  /\ UNCHANGED <<endpoint, req, page, relayed, failure, crashed>>

HeadAfterGet(r) ==
  /\ pc = "head_wait_get"
  /\ got' = Append(got, r)
  /\ res' = Respond(res, 200, HeadAnswer(r))
  /\ pc' = "done"
  /\ UNCHANGED <<endpoint, req, calls, page, relayed, failure, crashed>>

HeadCatch ==
  /\ pc \in {"head_wait_head", "head_wait_get"}
  /\ Catch(500, [ok |-> FALSE,
                 error |-> "Gagal memeriksa URL. Pastikan file publik & tidak perlu login."])

\* --------------------------------------------------------------- /api/og

S_ogTitle == <<"o","g",":","t","i","t","l","e">>

\* lines 64-67
OgAnswer(html) ==
  LET title == ExtractTitle(html)
      ogTitle == MetaContent(html, {S_ogTitle})
      ogImage == ExtractOgImage(html)
  IN [ok |-> TRUE,
      title |-> IF ogTitle # <<>> THEN ogTitle ELSE title,
      image |-> ogImage]

OgStart(u) ==
  /\ pc = "idle"
  /\ IF ~isHttpUrl(u)
     THEN RejectInvalid("og", u, [ok |-> FALSE, error |-> "URL tidak valid"])
     ELSE /\ endpoint' = "og"
          /\ req' = [NoReq EXCEPT !.url = u]
          /\ calls' = <<Fetch("GET", u, [UserAgent |-> UA])>>
          /\ pc' = "og_wait_fetch"
          /\ UNCHANGED <<got, page, res, relayed, failure, crashed>>

OgAfterFetch(r) ==
  /\ pc = "og_wait_fetch"
  /\ got' = Append(got, r)
  /\ pc' = "og_wait_text"
  /\ UNCHANGED <<endpoint, req, calls, page, res, relayed, failure, crashed>>

OgAfterText(html) ==
  /\ pc = "og_wait_text"
  /\ page' = html
  /\ res' = Respond(res, 200, OgAnswer(html))
  /\ pc' = "done"
  /\ UNCHANGED <<endpoint, req, calls, got, relayed, failure, crashed>>

OgCatch ==
  /\ pc \in {"og_wait_fetch", "og_wait_text"}
  /\ Catch(200, [ok |-> FALSE,
                 error |-> "Tidak bisa ambil metadata (mungkin bukan halaman HTML)."])

\* --------------------------------------------------- /api/resolve/rednote

\* an answer without the `!media.length && !ogImage` soft failure
ResolveAnswer_NoSoftFailure(html, finalUrl) ==
  [ok |-> TRUE, page |-> finalUrl, title |-> ExtractTitle(html),
   cover |-> ExtractOgImage(html), media |-> BuildMedia(html)]

\* lines 85-110: the answer computed from the page text and the final URL
ResolveAnswer(html, finalUrl) ==
  LET ogImage == ExtractOgImage(html)
      title == ExtractTitle(html)
      media == BuildMedia(html)
  IN IF Len(media) = 0 /\ ogImage = <<>>
     THEN [ok |-> FALSE,
           error |-> "Tidak menemukan URL media langsung di halaman ini. Bisa jadi konten dilindungi atau perlu login."]
     ELSE [ok |-> TRUE, page |-> finalUrl, title |-> title, cover |-> ogImage, media |-> media]

ResolveStart(u) ==
  /\ pc = "idle"
  /\ IF ~isHttpUrl(u)
     THEN RejectInvalid("resolve", u, [ok |-> FALSE, error |-> "URL tidak valid"])
     ELSE /\ endpoint' = "resolve"
          /\ req' = [NoReq EXCEPT !.url = u]
          /\ calls' = <<Fetch("GET", u, [UserAgent |-> UA, AcceptLanguage |-> "id,en;q=0.9"])>>
          /\ pc' = "resolve_wait_fetch"
          /\ UNCHANGED <<got, page, res, relayed, failure, crashed>>

\* a resolver that follows the redirect itself with a second GET
ResolveAfterFetch_Refetch(r, finalUrl) ==
  /\ pc = "resolve_wait_fetch"
  /\ IF finalUrl # req.url /\ Len(calls) < 2
     THEN /\ calls' = Append(calls, Fetch("GET", finalUrl, [UserAgent |-> UA]))
          /\ UNCHANGED <<got, pc>>
     ELSE /\ got' = Append(got, [status |-> r.status, ct |-> r.ct, cl |-> r.cl,
                                 chunks |-> r.chunks, url |-> finalUrl])
          /\ pc' = "resolve_wait_text"
          /\ UNCHANGED calls
  /\ UNCHANGED <<endpoint, req, page, res, relayed, failure, crashed>>

\* pageResp resolves; redirect:'follow' makes pageResp.url the last hop
ResolveAfterFetch(r, finalUrl) ==
  /\ pc = "resolve_wait_fetch"
  /\ got' = Append(got, [status |-> r.status, ct |-> r.ct, cl |-> r.cl,
                         chunks |-> r.chunks, url |-> finalUrl])
  /\ pc' = "resolve_wait_text"
  /\ UNCHANGED <<endpoint, req, calls, page, res, relayed, failure, crashed>>

ResolveAfterText(html) ==
  /\ pc = "resolve_wait_text"
  /\ page' = html
  /\ res' = Respond(res, 200, ResolveAnswer(html, got[1].url))
  /\ pc' = "done"
  /\ UNCHANGED <<endpoint, req, calls, got, relayed, failure, crashed>>

ResolveCatch ==
  /\ pc \in {"resolve_wait_fetch", "resolve_wait_text"}
  /\ Catch(500, [ok |-> FALSE,
                 error |-> "Gagal memproses halaman. Pastikan postingan publik & tidak perlu login."])

\* ---------------------------------------------------------- /api/download

\* lines 122-123: the request headers, Referer only when it is an HTTP(S) URL
DownloadHeaders(referer) ==
  IF referer # <<>> /\ isHttpUrl(referer)
  THEN [UserAgent |-> UA, Referer |-> referer]
  ELSE [UserAgent |-> UA]

\* a download that fetches without the isHttpUrl line
DownloadStart_NoValidation(u, filename, referer) ==
  /\ pc = "idle"
  /\ endpoint' = "download"
  /\ req' = [url |-> u, filename |-> filename, referer |-> referer]
  /\ calls' = <<Fetch("GET", u, DownloadHeaders(referer))>>
  /\ pc' = "download_wait_fetch"
  /\ UNCHANGED <<got, page, res, relayed, failure, crashed>>

DownloadStart(u, filename, referer) ==
  /\ pc = "idle"
  /\ IF ~isHttpUrl(u)
     THEN /\ RejectInvalid("download", u, "URL tidak valid")
     ELSE /\ endpoint' = "download"
          /\ req' = [url |-> u, filename |-> filename, referer |-> referer]
          /\ calls' = <<Fetch("GET", u, DownloadHeaders(referer))>>
          /\ pc' = "download_wait_fetch"
          /\ UNCHANGED <<got, page, res, relayed, failure, crashed>>

\* a download without the `if (!r.ok)` line
DownloadAfterFetch_NoStatusCheck(r) ==
  /\ pc = "download_wait_fetch"
  /\ got' = Append(got, r)
  /\ LET ct == DownloadContentType(r.ct)
         r1 == SetHeader(res, "Content-Type", ct)
         r2 == SetHeader(r1, "Content-Disposition",
                         ContentDisposition(SafeName(req.filename), DownloadExt(ct, req.url)))
     IN res' = [r2 EXCEPT !.sends = r2.sends + 1]
  /\ pc' = "streaming"
  /\ UNCHANGED <<endpoint, req, calls, page, relayed, failure, crashed>>

\* lines 125-130: refuse a non-2xx upstream, else set the headers and pipe
DownloadAfterFetch(r) ==
  /\ pc = "download_wait_fetch"
  /\ got' = Append(got, r)
  /\ IF ~IsOk(r)
     THEN /\ res' = Respond(res, 400, <<"Gagal mengunduh: ", r.status>>)
          /\ pc' = "done"
     ELSE LET ct == DownloadContentType(r.ct)
              ext == DownloadExt(ct, req.url)
              safeName == SafeName(req.filename)
              r1 == SetHeader(res, "Content-Type", ct)
              r2 == SetHeader(r1, "Content-Disposition", ContentDisposition(safeName, ext))
          IN /\ res' = [r2 EXCEPT !.sends = r2.sends + 1]
             /\ pc' = "streaming"
  /\ UNCHANGED <<endpoint, req, calls, page, relayed, failure, crashed>>

DownloadCatch ==
  /\ pc = "download_wait_fetch"
  /\ Catch(500, "Server error saat mengunduh.")

\* r.body.pipe(res): one chunk of the upstream body reaches the caller
StreamChunk ==
  /\ pc = "streaming"
  /\ relayed < got[1].chunks
  /\ relayed' = relayed + 1
  /\ UNCHANGED <<endpoint, req, pc, calls, got, page, res, failure, crashed>>

\* the upstream body ends: pipe ends the response
StreamEnd ==
  /\ pc = "streaming"
  /\ relayed = got[1].chunks
  /\ res' = [res EXCEPT !.ended = TRUE]
  /\ pc' = "done"
  /\ UNCHANGED <<endpoint, req, calls, got, page, relayed, failure, crashed>>

\* the upstream body stream emits 'error' after pipe() began. The handler has
\* returned and pipe() forwards no error: with an 'error' listener on the body
\* the response is left open for ever ("hung"), without one the event is an
\* uncaught exception and the process exits ("crashed").
StreamError(unhandledEvent) ==
  /\ pc = "streaming"
  /\ failure' = "stream"
  /\ crashed' = unhandledEvent
  /\ pc' = IF unhandledEvent THEN "crashed" ELSE "hung"
  /\ UNCHANGED <<endpoint, req, calls, got, page, res, relayed>>

\* ------------------------------------------------------------------- next

\* the request is over; the server takes the next one
Finish ==
  /\ pc = "done"
  /\ endpoint' = "none"
  /\ req' = NoReq
  /\ pc' = "idle"
  /\ calls' = <<>>
  /\ got' = <<>>
  /\ page' = <<>>
  /\ res' = NewRes
  /\ relayed' = 0
  /\ failure' = "none"
  /\ UNCHANGED crashed

Next ==
  \/ \E u \in Urls : HeadStart(u)
  \/ \E r \in ProbeResponses : HeadAfterHead(r)
  \/ \E r \in ProbeResponses : HeadAfterGet(r)
  \/ HeadCatch
  \/ \E u \in Urls : OgStart(u)
  \/ \E r \in PageResponses : OgAfterFetch(r)
  \/ \E html \in Htmls : OgAfterText(html)
  \/ OgCatch
  \/ \E u \in Urls : ResolveStart(u)
  \/ \E r \in PageResponses, f \in {req.url, U_final} : ResolveAfterFetch(r, f)
  \/ \E html \in Htmls : ResolveAfterText(html)
  \/ ResolveCatch
  \/ \E u \in Urls, fn \in Filenames, rf \in Referers : DownloadStart(u, fn, rf)
  \/ \E r \in MediaResponses : DownloadAfterFetch(r)
  \/ DownloadCatch
  \/ StreamChunk
  \/ StreamEnd
  \/ \E unhandledEvent \in BOOLEAN : StreamError(unhandledEvent)
  \/ Finish

Spec == Init /\ [][Next]_vars

\* ------------------------------------------------------------------ claims

\* the text of a Content-Disposition value after its last dot, without the
\* closing quote
DispExt(disp) ==
  SubSeq(disp, SetMax({i \in 1..Len(disp) : disp[i] = "."}) + 1, Len(disp) - 1)

\* the text of a Content-Disposition value between filename=" and its last dot
DispName(disp) ==
  SubSeq(disp, Len(S_attachment) + 1, SetMax({i \in 1..Len(disp) : disp[i] = "."}) - 1)

EndsWith(s, p) == Len(s) >= Len(p) /\ ExactAt(s, p, Len(s) - Len(p) + 1)

HasDisposition == "Content-Disposition" \in DOMAIN res.headers

\* C1: every outbound call targets a url that isHttpUrl accepts, and a request
\* whose url isHttpUrl rejects is answered with HTTP 400, once, with no
\* outbound call at all.
C1_ValidatedBeforeOutbound ==
  /\ \A k \in 1..Len(calls) : isHttpUrl(calls[k].url)
  /\ (endpoint # "none" /\ ~isHttpUrl(req.url)) =>
       (calls = <<>> /\ pc = "done" /\ res.status = 400 /\ res.sends = 1)

\* a download of a file: URL has been refused without a call
C1_Witness ==
  /\ endpoint = "download" /\ req.url = U_file
  /\ pc = "done" /\ res.status = 400 /\ calls = <<>>

\* C2: the download proxy relays body chunks only of an upstream response
\* whose declared content type allowedType accepts.
C2_OnlyAllowedTypesRelayed ==
  (endpoint = "download" /\ relayed > 0) => allowedType(got[1].ct)

\* the page mentions none of og:video, og:image, .mp4, .m3u8 (in any case)
NoMediaMarkers(html) ==
  LET h == toLowerCase(html)
  IN /\ ~includes(h, S_ogVideo) /\ ~includes(h, S_ogImage)
     /\ ~includes(h, S_mp4) /\ ~includes(h, S_m3u8)

\* C3: every answer of the resolver has media or a cover when ok is true, has
\* an error field exactly when ok is false, and is ok:false with a non-empty
\* error for a page without og:video, og:image and .mp4/.m3u8 link.
C3_ResolveResultInvariant ==
  (endpoint = "resolve" /\ pc = "done") =>
    LET b == res.body
    IN /\ b.ok => (Len(b.media) > 0 \/ b.cover # <<>>)
       /\ ("error" \in DOMAIN b) <=> ~b.ok
       /\ ~b.ok => b.error # ""
       /\ NoMediaMarkers(page) => ~b.ok

\* a fetched page without any media marker was answered ok:false with HTTP 200
C3_Witness ==
  /\ endpoint = "resolve" /\ pc = "done" /\ page = H_nothing
  /\ res.status = 200 /\ ~res.body.ok

\* C4: every media candidate of a resolver answer has a url isHttpUrl accepts.
C4_MediaUrlsValid ==
  (endpoint = "resolve" /\ pc = "done" /\ res.body.ok) =>
    \A k \in 1..Len(res.body.media) : isHttpUrl(res.body.media[k].url)

\* C5: a non-2xx upstream response to the download's GET is answered with
\* HTTP 400 carrying the upstream status, without Content-Disposition and
\* without a single relayed chunk.
C5_UpstreamFailureRefused ==
  (endpoint = "download" /\ Len(got) = 1 /\ ~IsOk(got[1])) =>
    /\ pc = "done" /\ res.status = 400 /\ res.sends = 1
    /\ res.body[2] = got[1].status
    /\ ~HasDisposition
    /\ relayed = 0

\* a download whose upstream answered 404 is over
C5_Witness ==
  /\ endpoint = "download" /\ Len(got) = 1 /\ got[1].status = 404 /\ got[1].chunks > 0
  /\ pc = "done"

\* C6: every failure met by a handler is turned into exactly one complete
\* response, no response is sent twice, and the process is never terminated.
C6_EveryFailureAnswered ==
  /\ ~crashed
  /\ res.sends <= 1
  /\ failure # "none" => (pc = "done" /\ res.sends = 1 /\ res.ended)

\* the order of the probe's outbound calls: HEAD first, the ranged GET if and
\* only if the HEAD response is unsuccessful or has no content type, never
\* more than one call outstanding
C7_CallOrder ==
  endpoint = "head" =>
    /\ Len(calls) <= 2
    /\ Len(got) <= Len(calls) /\ Len(calls) - Len(got) <= 1
    /\ Len(calls) >= 1 => (calls[1].method = "HEAD" /\ calls[1].url = req.url)
    /\ Len(calls) = 2 <=> (Len(got) >= 1 /\ (~IsOk(got[1]) \/ got[1].ct = <<>>))
    /\ Len(calls) = 2 =>
         /\ calls[2].method = "GET" /\ calls[2].url = req.url
         /\ calls[2].headers.Range = "bytes=0-1"

\* C7 as stated: the call order, and whenever a response was obtained the
\* answer is ok:true exactly when allowedType accepts the content type of the
\* last response obtained, and an ok:false answer carries that response's
\* content type and length.
C7_AnswerFromLastResponse ==
  /\ C7_CallOrder
  /\ (endpoint = "head" /\ pc = "done" /\ Len(got) > 0) =>
       LET last == got[Len(got)]
           b == res.body
       IN /\ b.ok <=> allowedType(last.ct)
          /\ ~b.ok => /\ "contentType" \in DOMAIN b
                      /\ b.contentType = last.ct /\ b.contentLength = last.cl

\* C7 amended: the call order, and when every call issued returned a response
\* the answer (HTTP 200) is ok:true exactly when allowedType accepts the
\* content type of the last one and carries its content type and length;
\* otherwise (invalid url, a rejected call) it is ok:false with HTTP 400 or
\* 500 and an error only.
C7_ProbeAnswer ==
  /\ C7_CallOrder
  /\ (endpoint = "head" /\ pc = "done") =>
       LET b == res.body
       IN IF Len(calls) > 0 /\ Len(got) = Len(calls)
          THEN /\ res.status = 200
               /\ b.ok <=> allowedType(got[Len(got)].ct)
               /\ b.contentType = got[Len(got)].ct
               /\ b.contentLength = got[Len(got)].cl
          ELSE /\ res.status = IF calls = <<>> THEN 400 ELSE 500
               /\ ~b.ok /\ "contentType" \notin DOMAIN b

\* the probe answered ok:true from the ranged GET after a HEAD without
\* content type
C7_Witness ==
  /\ endpoint = "head" /\ pc = "done" /\ Len(calls) = 2 /\ Len(got) = 2
  /\ IsOk(got[1]) /\ got[1].ct = <<>>
  /\ res.body.ok

\* C8: the extension of Content-Disposition is the first word after '/' of the
\* upstream's declared content type and, when there is none (the header is
\* missing included), m3u8 if the source url ends in .m3u8, else bin
\* (compared without regard to case).
C8_ExtensionFromDeclaredType ==
  (endpoint = "download" /\ HasDisposition) =>
    LET w == FirstWordAfterSlash(got[1].ct)
        expected == IF w # <<>> THEN w
                    ELSE IF EndsWith(req.url, S_m3u8) THEN S_extM3u8 ELSE S_extBin
    IN toLowerCase(DispExt(res.headers["Content-Disposition"])) = toLowerCase(expected)

\* C9: the name in Content-Disposition holds no path separator, is never
\* empty, and is 'download' whenever sanitizing the filename parameter yields
\* the empty string.
C9_SafeNonEmptyName ==
  (endpoint = "download" /\ HasDisposition) =>
    LET name == DispName(res.headers["Content-Disposition"])
    IN /\ \A i \in 1..Len(name) : name[i] \notin {"/", "\\"}
       /\ name # <<>>
       /\ sanitize(req.filename) = <<>> => name = S_download

\* C10 as stated: every finished invocation of the resolver has issued exactly
\* one outbound call, a GET.
C10_ExactlyOneGet ==
  (endpoint = "resolve" /\ pc = "done") =>
    (Len(calls) = 1 /\ calls[1].method = "GET")

\* C10 amended: an invocation of the resolver issues one outbound GET, to its
\* url parameter, when isHttpUrl accepts that parameter and no outbound call
\* when it does not; it never issues a second call.
C10_OneGetIffValid ==
  endpoint = "resolve" =>
    /\ Len(calls) = IF isHttpUrl(req.url) THEN 1 ELSE 0
    /\ \A k \in 1..Len(calls) : calls[k].method = "GET" /\ calls[k].url = req.url

\* the resolver answered ok:true after a redirect, having issued one GET
C10_Witness ==
  /\ endpoint = "resolve" /\ pc = "done" /\ res.body.ok
  /\ got[1].url = U_final /\ Len(calls) = 1

====
